---------------------------- MODULE Spec2Model ----------------------------
(***************************************************************************)
(* The pyinfra facts API (pyinfra/api/facts.py): the fact registry, the    *)
(* per-host fact cache behind host.facts_lock, the resolution of one fact  *)
(* on one host (get_fact / _get_fact) and the fan-out over the active      *)
(* hosts (get_facts).                                                      *)
(*                                                                         *)
(* Greenlets are cooperatively scheduled: a greenlet runs until it blocks, *)
(* which in this file happens when it waits for host.facts_lock and when   *)
(* host.run_shell_command is in flight.  Each action below is one such     *)
(* uninterrupted run.                                                      *)
(***************************************************************************)
EXTENDS Integers, Sequences, FiniteSets, TLC

VARIABLES
    FACTS,                     \* the registry: fact name -> fact class
    facts,                     \* host.facts: per host, fact_hash -> data
    facts_lock,                \* host.facts_lock: per host, owner and depth
    current_op_global_kwargs,  \* host.current_op_global_kwargs (None is {})
    failed_hosts,              \* hosts handed to state.fail_hosts
    IGNORE_ERRORS,             \* state.config.IGNORE_ERRORS
    stack,                     \* per greenlet: its get_fact frames, outermost first
    pc,                        \* per greenlet: "idle", "lock" or "exec"
    ret,                       \* per greenlet: how its last API call ended
    batch,                     \* the get_facts call of the main greenlet
    calls_left,                \* API calls the run may still make
    op_changes_left,           \* changes of current_op_global_kwargs left
    last_defined,              \* the class defined last, and whether its fact
                               \* name was registered to another class before
    stored_args,               \* per host and fact_hash: the args of the call
                               \* that wrote the entry of host.facts
    shell_calls,               \* per host and fact_hash: run_shell_command calls
    overlap                    \* per greenlet: a concurrent call with its
                               \* fingerprint ran the command while it waited

vars == <<FACTS, facts, facts_lock, current_op_global_kwargs, failed_hosts,
          IGNORE_ERRORS, stack, pc, ret, batch, calls_left, op_changes_left,
          last_defined, stored_args, shell_calls, overlap>>

---------------------------------------------------------------------------
(* Bounds of the model *)

\* API calls in a run with concurrent greenlets
MaxCalls == 2
\* API calls in a run that resolves facts one after the other
MaxResolveCalls == 1
\* API calls in a run that reads, injects and evicts cache entries
MaxCacheCalls == 3
\* changes of a host's current operation arguments in a run
MaxOpChanges == 1

Hosts == {"h1", "h2"}
NoGreenlet == "-"

\* The greenlets, in the order in which a new call takes an idle one
GreenletOrder == <<"g1", "g2">>
Greenlets == {GreenletOrder[i] : i \in 1..Len(GreenletOrder)}

---------------------------------------------------------------------------
(* Python values *)

None == "None"
Truthy(v) == v # None /\ v # ""

EmptyDict == [k \in {} |-> None]

DictUpdate(d, e) ==
    [k \in DOMAIN d \cup DOMAIN e |-> IF k \in DOMAIN e THEN e[k] ELSE d[k]]

DictFilter(d, keys) == [k \in DOMAIN d \cap keys |-> d[k]]

\* fact data: None, a list of lines, a string (kept as its lines), an
\* integer, or a dict from keys to data
NoneData == [t |-> "none", l |-> <<>>, n |-> 0, d |-> EmptyDict]
ListData(lines) == [t |-> "list", l |-> lines, n |-> 0, d |-> EmptyDict]
StrData(lines) == [t |-> "str", l |-> lines, n |-> 0, d |-> EmptyDict]
IntData(k) == [t |-> "int", l |-> <<>>, n |-> k, d |-> EmptyDict]
DictData(items) == [t |-> "dict", l |-> <<>>, n |-> 0, d |-> items]

Top(stk) == stk[Len(stk)]
Pop(stk) == SubSeq(stk, 1, Len(stk) - 1)

---------------------------------------------------------------------------
(* The registry: FACTS and FactMeta (lines 40-80) *)

\* pyinfra.api.util.underscore: CamelCase class name -> snake_case fact name
underscore(cname) ==
    CASE cname = "Files" -> "files"
      [] cname = "FileCount" -> "file_count"
      [] cname = "Hostname" -> "hostname"
      [] cname = "Users" -> "users"
      [] cname = "UserCount" -> "user_count"
      [] cname = "DebPackages" -> "deb_packages"
      [] cname = "FactBase" -> "fact_base"
      [] OTHER -> "short_fact_base"

\* The fact classes of the model.  A class is the attrs FactMeta and
\* _get_fact read: `module` tells apart two classes of the same name.
\*   Files      a fact whose data is the list of output lines
\*   Hostname   a fact that keeps FactBase.default and FactBase.process
\*   Users      a fact whose data is a dict: first word of a line -> [line]
\*   FileCount  a short fact: fact = Files, process_data = len
\*   UserCount  a short fact: fact = Users, process_data = len
\*   DebPackages  a fact like Hostname that declares requires_command
\* FactBase is abstract; ShortFactBase declares no `abstract`, its fact is None.
FactClass(cname, module) ==
    [cname |-> cname,
     module |-> module,
     abstract |-> cname = "FactBase",
     short |-> cname \in {"FileCount", "UserCount", "ShortFactBase"},
     fact |-> CASE cname = "FileCount" -> "Files"
                [] cname = "UserCount" -> "Users"
                [] OTHER -> None,
     command |-> CASE cname = "Files" -> <<"ls">>
                   [] cname = "Hostname" -> <<"hostname">>
                   [] cname = "Users" -> <<"cat", "/etc/passwd">>
                   [] cname = "DebPackages" -> <<"dpkg", "-l">>
                   [] OTHER -> <<>>,
     requires_command |-> IF cname = "DebPackages" THEN "dpkg" ELSE None,
     shell_executable |-> None]

\* A registry that keeps the class registered first under a name
FactMetaInitKeepFirst(registry, cls) ==
    IF cls.abstract \/ underscore(cls.cname) \in DOMAIN registry
    THEN registry
    ELSE DictUpdate(registry, [k \in {underscore(cls.cname)} |-> cls])

\* FactMeta.__init__ : the registry after class `cls` is defined
FactMetaInit(registry, cls) ==
    IF cls.abstract
    THEN registry
    ELSE DictUpdate(registry, [k \in {underscore(cls.cname)} |-> cls])

is_fact(name) == name \in DOMAIN FACTS

get_fact_class(name) == FACTS[name]

get_fact_names == DOMAIN FACTS

\* fact.default(): FactBase.default returns None; Files overrides it with
\* list, Users with dict
default(cls) ==
    CASE cls.cname = "Files" -> ListData(<<>>)
      [] cls.cname = "Users" -> DictData(EmptyDict)
      [] OTHER -> NoneData

\* fact.process(output): FactBase.process joins the lines into one string;
\* Files keeps the list of lines, Users builds a dict (a later line with the
\* same first word replaces an earlier one)
process(cls, output) ==
    CASE cls.cname = "Files" -> ListData(output)
      [] cls.cname = "Users" ->
            DictData([k \in {output[i][1] : i \in 1..Len(output)} |->
                LET last == CHOOSE i \in 1..Len(output) :
                                /\ output[i][1] = k
                                /\ \A j \in 1..Len(output) :
                                       output[j][1] = k => j <= i
                IN  ListData(<<output[last]>>)])
      [] OTHER -> StrData(output)

\* len(data) of a list or of a dict
PyLen(data) ==
    IF data.t = "dict" THEN Cardinality(DOMAIN data.d) ELSE Len(data.l)

\* short_fact.process_data(data) of FileCount and of UserCount: len(data)
process_data(cls, data) == IntData(PyLen(data))

\* The classes defined at import time, in definition order
StartupClasses ==
    <<FactClass("FactBase", "pyinfra.api.facts"),
      FactClass("ShortFactBase", "pyinfra.api.facts"),
      FactClass("Files", "m1"),
      FactClass("FileCount", "m1"),
      FactClass("Users", "m1"),
      FactClass("UserCount", "m1")>>

\* The classes a program may define: two modules may each define a class
\* of the same name
ClassNames ==
    {"FactBase", "ShortFactBase", "Files", "FileCount", "Users", "UserCount",
     "Hostname"}

Modules == {"m1", "m2"}

NoClass == [cls |-> FactClass("", ""), replaced |-> FALSE]

\* lines 72-80: a class statement runs FactMeta.__init__
DefineClass(cls) ==
    /\ FACTS' = FactMetaInit(FACTS, cls)
    /\ last_defined' =
           [cls |-> cls,
            replaced |-> /\ underscore(cls.cname) \in DOMAIN FACTS
                         /\ FACTS[underscore(cls.cname)] # cls]
    /\ UNCHANGED <<facts, stored_args, facts_lock, current_op_global_kwargs, failed_hosts,
                   IGNORE_ERRORS, stack, pc, ret, batch, calls_left,
                   op_changes_left, shell_calls, overlap>>

RECURSIVE RegisterAll(_, _)
RegisterAll(registry, classes) ==
    IF classes = <<>>
    THEN registry
    ELSE RegisterAll(FactMetaInit(registry, Head(classes)), Tail(classes))

---------------------------------------------------------------------------
(* Execution arguments (lines 127-150 and pyinfra.api.arguments) *)

\* pyinfra.api.arguments.get_executor_kwarg_keys()
get_executor_kwarg_keys == {"sudo_user", "su_user", "timeout"}

\* every global argument: the executor ones and the operation-level ones
GlobalArgumentKeys == get_executor_kwarg_keys \cup {"ignore_errors"}

GlobalArgumentDefault(key) ==
    IF key = "ignore_errors" THEN IGNORE_ERRORS ELSE None

\* pyinfra.api.arguments.pop_global_arguments(state, host, kwargs): pops the
\* global arguments from kwargs; returns every global argument (the passed
\* value, else its default) and the keys that were passed
pop_global_arguments(kwargs) ==
    [override_kwargs |->
        [k \in GlobalArgumentKeys |->
            IF k \in DOMAIN kwargs THEN kwargs[k] ELSE GlobalArgumentDefault(k)],
     override_kwarg_keys |-> DOMAIN kwargs \cap GlobalArgumentKeys,
     kwargs |-> DictFilter(kwargs, DOMAIN kwargs \ GlobalArgumentKeys)]

\* A check of the override keys that lets every key through
ExecutorKwargsNeverRaise(override_kwarg_keys) == FALSE

\* lines 140-144: an override key that is no executor key raises PyinfraError
ExecutorKwargsRaise(override_kwarg_keys) ==
    \E key \in override_kwarg_keys : key \notin get_executor_kwarg_keys

\* A merge in which the host's current operation overrides what was passed
get_executor_kwargs_current_op_wins(host, override_kwargs, override_kwarg_keys) ==
    DictFilter(DictUpdate(override_kwargs, current_op_global_kwargs[host]),
               get_executor_kwarg_keys)

\* lines 128-137 and 146-150: the dict _get_executor_kwargs returns
get_executor_kwargs(host, override_kwargs, override_kwarg_keys) ==
    LET current == current_op_global_kwargs[host]
        merged == DictUpdate(override_kwargs,
                      DictFilter(current, DOMAIN current \ override_kwarg_keys))
    IN  DictFilter(merged, get_executor_kwarg_keys)

\* pyinfra.api.util.make_hash: a deterministic digest of its argument; the
\* model keeps the argument itself (no two arguments collide)
make_hash(name, kwargs, executor_kwargs) == <<name, kwargs, executor_kwargs>>

\* fact_hash=None
NoHash == <<>>

\* line 328: the fingerprint get_host_fact computes
get_host_fact_hash(host, name, args, kwargs) ==
    make_hash(name, kwargs, get_executor_kwargs(host, EmptyDict, {}))

\* A fingerprint that leaves out the host's execution arguments
create_host_fact_hash_no_executor_kwargs(host, name, args, kwargs) ==
    make_hash(name, kwargs, EmptyDict)

\* line 333: the fingerprint create_host_fact computes
create_host_fact_hash(host, name, args, kwargs) ==
    make_hash(name, kwargs, get_executor_kwargs(host, EmptyDict, {}))

\* line 338: the fingerprint delete_host_fact computes
delete_host_fact_hash(host, name, args, kwargs) ==
    make_hash(name, kwargs, get_executor_kwargs(host, EmptyDict, {}))

---------------------------------------------------------------------------
(* The transport's answer and its classification (lines 261-296) *)

\* pyinfra.connectors.util.split_combined_output: combined_output_lines is a
\* sequence of (stream, line); a line is its sequence of words and
\* punctuation marks, so that a regex prefix is a prefix of the sequence
SelectStream(combined, stream) ==
    LET picked == SelectSeq(combined, LAMBDA e : e.stream = stream)
    IN  [i \in 1..Len(picked) |-> picked[i].line]

split_combined_output(combined) ==
    [stdout |-> SelectStream(combined, "stdout"),
     stderr |-> SelectStream(combined, "stderr")]

IsPrefix(words, line) ==
    Len(line) >= Len(words) /\ SubSeq(line, 1, Len(words)) = words

\* re.match(SUDO_REGEX, line): r'^sudo: unknown user:'
MatchSudoRegex(line) == IsPrefix(<<"sudo", ":", "unknown", "user", ":">>, line)

\* re.match(SU_REGEXES[0], line): r'^su: user .+ does not exist'
MatchSuUserRegex(line) ==
    /\ IsPrefix(<<"su", ":", "user">>, line)
    /\ \E i \in 5..Len(line) :
          i + 2 <= Len(line) /\ SubSeq(line, i, i + 2) = <<"does", "not", "exist">>

\* re.match(SU_REGEXES[1], line): r'^su: unknown login'
MatchSuLoginRegex(line) == IsPrefix(<<"su", ":", "unknown", "login">>, line)

\* A test of the first stderr line that does not ask whether the
\* escalation user was requested
UnknownUserErrorAnyUser(executor_kwargs, first_line) ==
    \/ MatchSudoRegex(first_line)
    \/ MatchSuUserRegex(first_line)
    \/ MatchSuLoginRegex(first_line)

\* lines 291-296: the first stderr line says the escalation user is unknown
\* and that user was asked for
UnknownUserError(executor_kwargs, first_line) ==
    \/ Truthy(executor_kwargs["sudo_user"]) /\ MatchSudoRegex(first_line)
    \/ /\ Truthy(executor_kwargs["su_user"])
       /\ MatchSuUserRegex(first_line) \/ MatchSuLoginRegex(first_line)

\* A classification that hands every successful output to fact.process,
\* the empty one too
ClassifyAlwaysProcess(cls, status, combined, executor_kwargs) ==
    LET out == split_combined_output(combined)
        final == IF status
                 THEN TRUE
                 ELSE IF out.stderr # <<>>
                      THEN UnknownUserError(executor_kwargs, out.stderr[1])
                      ELSE FALSE
    IN  [status |-> final,
         data |-> IF status THEN process(cls, out.stdout) ELSE default(cls),
         processed |-> status]

\* lines 278-296: status and data after run_shell_command has returned
\* (status, combined); `processed` tells whether fact.process was called
Classify(cls, status, combined, executor_kwargs) ==
    LET out == split_combined_output(combined)
        parsed == status /\ out.stdout # <<>>
        final == IF status
                 THEN TRUE
                 ELSE IF out.stderr # <<>>
                      THEN UnknownUserError(executor_kwargs, out.stderr[1])
                      ELSE FALSE
    IN  [status |-> final,
         data |-> IF parsed THEN process(cls, out.stdout) ELSE default(cls),
         processed |-> parsed]

---------------------------------------------------------------------------
(* What the environment supplies: call arguments and transport answers *)

Out(line) == [stream |-> "stdout", line |-> line]
Err(line) == [stream |-> "stderr", line |-> line]

LineA == <<"a">>
LineB == <<"b">>
LineC == <<"c">>
ErrDenied == <<"permission", "denied">>
ErrSudo == <<"sudo", ":", "unknown", "user", ":", "alice">>
ErrSuUser == <<"su", ":", "user", "bob", "does", "not", "exist">>
ErrSuNoName == <<"su", ":", "user", "does", "not", "exist">>
ErrSuLogin == <<"su", ":", "unknown", "login", ":", "bob">>

CombinedOutputs ==
    {<<>>,
     <<Out(LineA)>>,
     <<Out(LineA), Out(LineB), Out(LineC)>>,
     <<Err(ErrDenied)>>,
     <<Err(ErrSudo)>>,
     <<Err(ErrSuUser)>>,
     <<Err(ErrSuNoName)>>,
     <<Err(ErrSuLogin)>>,
     <<Err(ErrDenied), Err(ErrSudo)>>,
     <<Out(LineA), Err(ErrSudo)>>}

\* host.run_shell_command either raises timeout_error, socket_error or
\* SSHException, or returns (status, combined_output_lines)
TransportRaise == [raises |-> TRUE, status |-> FALSE, combined |-> <<>>]

ShellResults ==
    {TransportRaise} \cup
    {[raises |-> FALSE, status |-> st, combined |-> c] :
        st \in BOOLEAN, c \in CombinedOutputs}

\* the answers used where calls run concurrently
CoreShellResults ==
    {TransportRaise,
     [raises |-> FALSE, status |-> TRUE,
      combined |-> <<Out(LineA), Out(LineB), Out(LineC)>>],
     [raises |-> FALSE, status |-> FALSE, combined |-> <<Err(ErrDenied)>>]}

CacheShellResults == CoreShellResults \ {TransportRaise}

NoResult == [raises |-> FALSE, status |-> FALSE, combined |-> <<>>]

\* the fact names asked for where calls run concurrently
FactNames == {"files", "file_count"}

\* ... where facts are resolved one after the other
ResolveFactNames == {"files", "users", "user_count"}

\* ... where cache entries are read, injected and evicted
CacheFactNames == {"files", "user_count"}

ArgsChoices == {<<>>}

KwargsChoices == {EmptyDict, [sudo_user |-> "alice"], [su_user |-> "bob"]}

CoreKwargsChoices == {EmptyDict}

CacheKwargsChoices == {EmptyDict, [sudo_user |-> "alice"]}

CacheCurrentOpChoices == {EmptyDict, [sudo_user |-> "alice"]}

CurrentOpChoices ==
    {EmptyDict, [sudo_user |-> "alice"],
     [ignore_errors |-> TRUE], [ignore_errors |-> FALSE]}

InjectedData == {ListData(<<<<"x">>>>)}

---------------------------------------------------------------------------
(* State of a call *)

\* One get_fact call: its arguments, and the locals _get_fact computes
Frame(host, name, args, kwargs, apply_failed_hosts, fact_hash) ==
    [host |-> host,
     name |-> name,
     args |-> args,
     kwargs |-> kwargs,
     apply_failed_hosts |-> apply_failed_hosts,
     fact_hash |-> fact_hash,
     executor_kwargs |-> EmptyDict,
     ignore_errors |-> FALSE,
     command |-> <<>>,
     result |-> NoResult]

\* How an API call ended: kind is "none" while it runs, then "return" (data)
\* or "raise" (exc).  The flags record what the call did: ran (it invoked
\* run_shell_command), terr (the transport raised), resolved (lines 278-324
\* were reached, with final `status`), processed (fact.process was called),
\* failed (state.fail_hosts was called), reclassified (a failed command was
\* taken for a success, lines 291-296)
RetNone ==
    [kind |-> "none", data |-> NoneData, exc |-> "",
     ran |-> FALSE, terr |-> FALSE, resolved |-> FALSE, status |-> FALSE,
     reclassified |-> FALSE, processed |-> FALSE, failed |-> FALSE]

Return(r, data) == [r EXCEPT !.kind = "return", !.data = data, !.exc = ""]

Raise(r, exc) == [r EXCEPT !.kind = "raise", !.data = NoneData, !.exc = exc]

NoBatch ==
    [state |-> "none", name |-> "", greenlet_to_host |-> EmptyDict,
     pending |-> {}, results |-> EmptyDict, progress |-> <<>>, exc |-> ""]

\* host.facts_lock: free, or held `depth` times by its owner
Free == [owner |-> NoGreenlet, depth |-> 0]

\* `with host.facts_lock` can be entered by greenlet g: the lock is free, or
\* g holds it already (the lock is reentrant)
CanAcquire(lock, g) == lock.owner = NoGreenlet \/ lock.owner = g

---------------------------------------------------------------------------
(* get_fact and _get_fact up to the transport call (lines 170-259) *)

\* lines 112-117: get_short_facts takes the data get_fact returned for the
\* primary fact and iterates data.items(); None, a list, a string and an
\* integer have no items(), which raises AttributeError
get_short_facts(short_cls, r) ==
    IF r.kind = "raise"
    THEN r
    ELSE IF r.data.t = "dict"
         THEN Return(r, DictData([k \in DOMAIN r.data.d |->
                                     process_data(short_cls, r.data.d[k])]))
         ELSE Raise(r, "AttributeError")

\* The result of the outermost call once the innermost frame of `stk` ends
\* with r: every enclosing frame is a short fact inside get_short_facts
\* (line 214), which returns what get_short_facts returns and stores nothing
RECURSIVE Unwind(_, _)
Unwind(stk, r) ==
    IF Len(stk) <= 1
    THEN r
    ELSE Unwind(Pop(stk), get_short_facts(get_fact_class(stk[Len(stk) - 1].name), r))

\* lines 238-241: the host's current operation value, else the config's
IgnoreErrors(host) ==
    IF "ignore_errors" \in DOMAIN current_op_global_kwargs[host]
    THEN current_op_global_kwargs[host]["ignore_errors"]
    ELSE IGNORE_ERRORS

\* lines 120-124: no command attribute of the model's classes is callable
make_command(command_attribute) == command_attribute

\* A guard that lacks the negation of the probe
CommandWithRequiresNotNegated(cls) ==
    LET command == make_command(cls.command)
        requires_command == make_command(cls.requires_command)
    IN  IF Truthy(requires_command)
        THEN <<"command", "-v", requires_command, ">/dev/null", "||">> \o command
        ELSE command

\* lines 253-259: the command of the fact, guarded by a probe for
\* requires_command when the fact declares one
CommandWithRequires(cls) ==
    LET command == make_command(cls.command)
        requires_command == make_command(cls.requires_command)
    IN  IF Truthy(requires_command)
        THEN <<"!", "command", "-v", requires_command, ">/dev/null", "||">>
                 \o command
        ELSE command

\* lines 221-259: the frame once _get_fact has built what it passes to
\* host.run_shell_command
Prepared(frame, cls) ==
    LET popped == pop_global_arguments(frame.kwargs)
    IN  [frame EXCEPT
            !.executor_kwargs =
                get_executor_kwargs(frame.host, popped.override_kwargs,
                                    popped.override_kwarg_keys),
            !.ignore_errors = IgnoreErrors(frame.host),
            !.command = CommandWithRequires(cls)]

\* lines 180-265: greenlet g has entered `with host.facts_lock` for the top
\* frame of stk and runs until it blocks or the call ends.  The answer is
\* where it stops: pc "idle" (the call ended with ret), "exec" (the command
\* is with the transport) or "lock" (it waits for the lock), and its stack
RECURSIVE RunToBlock(_, _, _)
RunToBlock(g, stk, r) ==
    LET frame == Top(stk)
        host == frame.host
        ended(res) == [pc |-> "idle", stack |-> <<>>, ret |-> Unwind(stk, res)]
    IN  IF frame.fact_hash # NoHash /\ frame.fact_hash \in DOMAIN facts[host]
        THEN \* line 182
             ended(Return(r, facts[host][frame.fact_hash]))
        ELSE IF ~is_fact(frame.name)
        THEN \* line 210
             ended(Raise(r, "KeyError"))
        ELSE IF get_fact_class(frame.name).short
        THEN IF get_fact_class(frame.name).fact = None
             THEN \* line 112: None has no name
                  ended(Raise(r, "AttributeError"))
             ELSE \* lines 214 and 112: get_fact for the primary fact, on the
                  \* same host, while this frame holds the lock
                  LET inner == Frame(host,
                                     underscore(get_fact_class(frame.name).fact),
                                     frame.args, EmptyDict, TRUE, NoHash)
                  IN  IF CanAcquire([owner |-> g, depth |-> Len(stk)], g)
                      THEN RunToBlock(g, Append(stk, inner), r)
                      ELSE [pc |-> "lock", stack |-> Append(stk, inner), ret |-> r]
        ELSE IF ExecutorKwargsRaise(
                    pop_global_arguments(frame.kwargs).override_kwarg_keys)
        THEN \* line 142
             ended(Raise(r, "PyinfraError"))
        ELSE \* line 265
             [pc |-> "exec",
              stack |-> Append(Pop(stk), Prepared(frame, get_fact_class(frame.name))),
              ret |-> [r EXCEPT !.ran = TRUE]]

\* another greenlet has the command of (host, fact_hash) with the transport
InFlight(g, host, fact_hash) ==
    \E o \in Greenlets \ {g} :
        /\ pc[o] \in {"exec", "resume"}
        /\ stack[o][1].host = host
        /\ stack[o][1].fact_hash = fact_hash

\* A `with` statement that never waits
WithFactsLockNeverWaits(host, g) == TRUE

\* line 180: `with host.facts_lock` lets greenlet g in without waiting
WithFactsLock(host, g) == CanAcquire(facts_lock[host], g)

\* Greenlet g, whose frames are stk, goes on from the `with host.facts_lock`
\* of its top frame: it takes the lock if it can and runs until it blocks
Enter(g, stk, r) ==
    LET host == stk[1].host
        outer == stk[1]
        b == IF WithFactsLock(host, g)
             THEN RunToBlock(g, stk, r)
             ELSE [pc |-> "lock", stack |-> stk, ret |-> r]
        held == IF b.pc = "lock" THEN Len(b.stack) - 1 ELSE Len(b.stack)
        waiting(o) == /\ o # g
                      /\ pc[o] = "lock"
                      /\ outer.fact_hash # NoHash
                      /\ stack[o][1].host = host
                      /\ stack[o][1].fact_hash = outer.fact_hash
    IN  /\ pc' = [pc EXCEPT ![g] = b.pc]
        /\ stack' = [stack EXCEPT ![g] = b.stack]
        /\ ret' = [ret EXCEPT ![g] = b.ret]
        /\ facts_lock' =
               IF ~WithFactsLock(host, g)
               THEN facts_lock
               ELSE [facts_lock EXCEPT ![host] =
                       IF held = 0 THEN Free ELSE [owner |-> g, depth |-> held]]
        /\ shell_calls' =
               IF b.pc = "exec" /\ outer.fact_hash # NoHash
               THEN [shell_calls EXCEPT ![host] =
                       DictUpdate(@, [k \in {outer.fact_hash} |->
                           IF k \in DOMAIN @ THEN @[k] + 1 ELSE 1])]
               ELSE shell_calls
        /\ overlap' =
               [o \in Greenlets |->
                   IF o = g
                   THEN IF pc[g] = "idle"
                        THEN outer.fact_hash # NoHash
                             /\ InFlight(g, host, outer.fact_hash)
                        ELSE overlap[g]
                   ELSE overlap[o] \/ (b.pc = "exec" /\ waiting(o))]

\* A new call runs in the first greenlet that is idle (greenlets are
\* interchangeable), as long as the model's budget of calls lasts
CanCall(g) ==
    /\ pc[g] = "idle"
    /\ g \notin batch.pending
    /\ calls_left > 0
    /\ \A i \in 1..Len(GreenletOrder) :
          GreenletOrder[i] = g =>
              \A j \in 1..(i - 1) :
                  pc[GreenletOrder[j]] # "idle" \/ GreenletOrder[j] \in batch.pending

---------------------------------------------------------------------------
(* The API calls *)

\* lines 327-329
get_host_fact(g, host, name, args, kwargs) ==
    /\ CanCall(g)
    /\ Enter(g, <<Frame(host, name, args, kwargs, TRUE,
                        get_host_fact_hash(host, name, args, kwargs))>>, RetNone)
    /\ calls_left' = calls_left - 1
    /\ UNCHANGED <<FACTS, last_defined, facts, stored_args, current_op_global_kwargs, failed_hosts,
                   IGNORE_ERRORS, batch, op_changes_left>>

\* lines 170-193: a direct call, without a fingerprint
get_fact(g, host, name, args, kwargs, apply_failed_hosts) ==
    /\ CanCall(g)
    /\ Enter(g, <<Frame(host, name, args, kwargs, apply_failed_hosts, NoHash)>>,
             RetNone)
    /\ calls_left' = calls_left - 1
    /\ UNCHANGED <<FACTS, last_defined, facts, stored_args, current_op_global_kwargs, failed_hosts,
                   IGNORE_ERRORS, batch, op_changes_left>>

\* lines 180-193: the lock a waiting greenlet asked for is handed to it
AcquireLock(g) ==
    /\ pc[g] = "lock"
    /\ WithFactsLock(Top(stack[g]).host, g)
    /\ Enter(g, stack[g], ret[g])
    /\ UNCHANGED <<FACTS, last_defined, facts, stored_args, current_op_global_kwargs, failed_hosts,
                   IGNORE_ERRORS, batch, calls_left, op_changes_left>>

\* lines 332-334
create_host_fact(host, name, data, args, kwargs) ==
    LET fact_hash == create_host_fact_hash(host, name, args, kwargs)
    IN  /\ calls_left > 0
        /\ calls_left' = calls_left - 1
        /\ facts' = [facts EXCEPT ![host] =
               DictUpdate(@, [k \in {fact_hash} |-> data])]
        /\ stored_args' = [stored_args EXCEPT ![host] =
               DictUpdate(@, [k \in {fact_hash} |-> args])]
        /\ shell_calls' = [shell_calls EXCEPT ![host] =
               DictFilter(@, DOMAIN @ \ {fact_hash})]
        /\ UNCHANGED <<FACTS, last_defined, facts_lock, current_op_global_kwargs,
                       failed_hosts, IGNORE_ERRORS, stack, pc, ret, batch,
                       op_changes_left, overlap>>

\* lines 337-339
delete_host_fact(host, name, args, kwargs) ==
    LET fact_hash == delete_host_fact_hash(host, name, args, kwargs)
    IN  /\ calls_left > 0
        /\ calls_left' = calls_left - 1
        /\ facts' = [facts EXCEPT ![host] =
               DictFilter(@, DOMAIN @ \ {fact_hash})]
        /\ stored_args' = [stored_args EXCEPT ![host] =
               DictFilter(@, DOMAIN @ \ {fact_hash})]
        /\ shell_calls' = [shell_calls EXCEPT ![host] =
               DictFilter(@, DOMAIN @ \ {fact_hash})]
        /\ UNCHANGED <<FACTS, last_defined, facts_lock, current_op_global_kwargs,
                       failed_hosts, IGNORE_ERRORS, stack, pc, ret, batch,
                       op_changes_left, overlap>>

\* host.current_op_global_kwargs is set by the operation that runs on the host
SetCurrentOp(host, kwargs) ==
    /\ op_changes_left > 0
    /\ kwargs # current_op_global_kwargs[host]
    /\ op_changes_left' = op_changes_left - 1
    /\ current_op_global_kwargs' =
           [current_op_global_kwargs EXCEPT ![host] = kwargs]
    /\ UNCHANGED <<FACTS, last_defined, facts, stored_args, facts_lock, failed_hosts, IGNORE_ERRORS,
                   stack, pc, ret, batch, calls_left, shell_calls, overlap>>

---------------------------------------------------------------------------
(* _get_fact from the transport call on (lines 261-324) *)

\* A failure test that forgets apply_failed_hosts
ShouldFailHostAlways(status, ignore_errors, apply_failed_hosts) ==
    ~status /\ ~ignore_errors

\* line 319: state.fail_hosts({host}) is called
ShouldFailHost(status, ignore_errors, apply_failed_hosts) ==
    ~status /\ ~ignore_errors /\ apply_failed_hosts

\* A store that does not ask for a fingerprint
ShouldStoreAlways(fact_hash) == TRUE

\* line 322: data is stored under fact_hash
ShouldStore(fact_hash) == fact_hash # NoHash

\* An end of the call that leaves the lock with greenlet g
FinishKeepsLock(g, r) ==
    /\ stack' = [stack EXCEPT ![g] = <<>>]
    /\ pc' = [pc EXCEPT ![g] = "idle"]
    /\ ret' = [ret EXCEPT ![g] = Unwind(stack[g], r)]
    /\ facts_lock' = facts_lock

\* The call of greenlet g ends with r: each `with host.facts_lock` on the
\* way out releases the lock
Finish(g, r) ==
    /\ stack' = [stack EXCEPT ![g] = <<>>]
    /\ pc' = [pc EXCEPT ![g] = "idle"]
    /\ ret' = [ret EXCEPT ![g] = Unwind(stack[g], r)]
    /\ facts_lock' = [facts_lock EXCEPT ![stack[g][1].host] = Free]

\* host.run_shell_command ends: it raises, or returns (status, combined)
TransportReturns(g, results) ==
    /\ pc[g] = "exec"
    /\ \E result \in results :
          stack' = [stack EXCEPT ![g][Len(stack[g])].result = result]
    /\ pc' = [pc EXCEPT ![g] = "resume"]
    /\ UNCHANGED <<FACTS, last_defined, facts, stored_args, facts_lock, current_op_global_kwargs,
                   failed_hosts, IGNORE_ERRORS, ret, batch, calls_left, op_changes_left,
                   shell_calls, overlap>>

\* The remote shell: `left || right` runs right only when left fails; `!`
\* turns the status of what follows around; `command -v name` succeeds when
\* name is installed.  fact_result is how the fact's own command ends when
\* it is run
RemoteShell(command, installed, fact_result) ==
    LET bars == {i \in 1..Len(command) : command[i] = "||"}
    IN  IF bars = {}
        THEN fact_result
        ELSE LET bar == CHOOSE i \in bars : \A j \in bars : i <= j
                 left == SubSeq(command, 1, bar - 1)
                 negated == left # <<>> /\ left[1] = "!"
                 probe == IF negated THEN Tail(left) ELSE left
                 found == /\ Len(probe) >= 3
                          /\ probe[1] = "command"
                          /\ probe[2] = "-v"
                          /\ probe[3] \in installed
                 left_status == IF negated THEN ~found ELSE found
             IN  IF left_status
                 THEN [raises |-> FALSE, status |-> TRUE, combined |-> <<>>]
                 ELSE fact_result

\* host.run_shell_command returns what the remote shell makes of the command
RemoteShellReturns(g, installed, fact_result) ==
    /\ pc[g] = "exec"
    /\ stack' = [stack EXCEPT ![g][Len(stack[g])].result =
                    RemoteShell(Top(stack[g]).command, installed, fact_result)]
    /\ pc' = [pc EXCEPT ![g] = "resume"]
    /\ UNCHANGED <<FACTS, last_defined, facts, stored_args, facts_lock, current_op_global_kwargs,
                   failed_hosts, IGNORE_ERRORS, ret, batch, calls_left, op_changes_left,
                   shell_calls, overlap>>

\* A resolution that stores its data only when the command succeeded
ResumeStoresSuccessOnly(g) ==
    /\ pc[g] = "resume"
    /\ LET frame == Top(stack[g])
           host == frame.host
           cls == get_fact_class(frame.name)
           c == Classify(cls, frame.result.status, frame.result.combined,
                         frame.executor_kwargs)
           fail == ShouldFailHost(c.status, frame.ignore_errors,
                                  frame.apply_failed_hosts)
       IN  IF frame.result.raises
           THEN \* lines 272-278: the except clause logs, then line 278 reads
                \* combined_output_lines, which was never assigned
                /\ Finish(g, Raise([ret[g] EXCEPT !.terr = TRUE],
                                   IF "timeout" \in DOMAIN frame.executor_kwargs
                                   THEN "UnboundLocalError" ELSE "KeyError"))
                /\ UNCHANGED <<facts, stored_args, failed_hosts>>
           ELSE /\ failed_hosts' =
                       IF fail THEN failed_hosts \cup {host} ELSE failed_hosts
                /\ facts' =
                       IF ShouldStore(frame.fact_hash) /\ c.status
                       THEN [facts EXCEPT ![host] =
                               DictUpdate(@, [k \in {frame.fact_hash} |-> c.data])]
                       ELSE facts
                /\ stored_args' =
                       IF ShouldStore(frame.fact_hash) /\ c.status
                       THEN [stored_args EXCEPT ![host] =
                               DictUpdate(@, [k \in {frame.fact_hash} |-> frame.args])]
                       ELSE stored_args
                /\ Finish(g, Return([ret[g] EXCEPT !.resolved = TRUE,
                                                   !.status = c.status,
                                                   !.reclassified =
                                                       c.status /\ ~frame.result.status,
                                                   !.processed = c.processed,
                                                   !.failed = fail],
                                    c.data))
    /\ UNCHANGED <<FACTS, last_defined, current_op_global_kwargs, IGNORE_ERRORS, batch,
                   calls_left, op_changes_left, shell_calls, overlap>>

\* lines 272-324: the greenlet runs the rest of _get_fact
Resume(g) ==
    /\ pc[g] = "resume"
    /\ LET frame == Top(stack[g])
           host == frame.host
           cls == get_fact_class(frame.name)
           c == Classify(cls, frame.result.status, frame.result.combined,
                         frame.executor_kwargs)
           fail == ShouldFailHost(c.status, frame.ignore_errors,
                                  frame.apply_failed_hosts)
       IN  IF frame.result.raises
           THEN \* lines 272-278: the except clause logs, then line 278 reads
                \* combined_output_lines, which was never assigned
                /\ Finish(g, Raise([ret[g] EXCEPT !.terr = TRUE],
                                   IF "timeout" \in DOMAIN frame.executor_kwargs
                                   THEN "UnboundLocalError" ELSE "KeyError"))
                /\ UNCHANGED <<facts, stored_args, failed_hosts>>
           ELSE /\ failed_hosts' =
                       IF fail THEN failed_hosts \cup {host} ELSE failed_hosts
                /\ facts' =
                       IF ShouldStore(frame.fact_hash)
                       THEN [facts EXCEPT ![host] =
                               DictUpdate(@, [k \in {frame.fact_hash} |-> c.data])]
                       ELSE facts
                /\ stored_args' =
                       IF ShouldStore(frame.fact_hash)
                       THEN [stored_args EXCEPT ![host] =
                               DictUpdate(@, [k \in {frame.fact_hash} |-> frame.args])]
                       ELSE stored_args
                /\ Finish(g, Return([ret[g] EXCEPT !.resolved = TRUE,
                                                   !.status = c.status,
                                                   !.reclassified =
                                                       c.status /\ ~frame.result.status,
                                                   !.processed = c.processed,
                                                   !.failed = fail],
                                    c.data))
    /\ UNCHANGED <<FACTS, last_defined, current_op_global_kwargs, IGNORE_ERRORS, batch,
                   calls_left, op_changes_left, shell_calls, overlap>>

---------------------------------------------------------------------------
(* get_facts (lines 153-167), run by the main greenlet *)

\* state.inventory.iter_active_hosts(): the hosts that have not failed
ActiveHosts == Hosts \ failed_hosts

\* The greenlet state.pool.spawn starts for each active host
Spawned ==
    CHOOSE m \in [ActiveHosts -> Greenlets] :
        \A a, b \in ActiveHosts : m[a] = m[b] => a = b

\* lines 154-157: one greenlet per active host, each running
\* get_fact(state, host, *args, **kwargs); no host is locked when they start
get_facts(name, args, kwargs) ==
    /\ batch.state # "running"
    /\ calls_left > 0
    /\ \A g \in Greenlets : pc[g] = "idle"
    /\ Cardinality(ActiveHosts) <= Cardinality(Greenlets)
    /\ LET greenlet_to_host ==
               [g \in {Spawned[h] : h \in ActiveHosts} |->
                   CHOOSE h \in ActiveHosts : Spawned[h] = g]
           started == DOMAIN greenlet_to_host
           b(g) == RunToBlock(g, <<Frame(greenlet_to_host[g], name, args,
                                         kwargs, TRUE, NoHash)>>, RetNone)
       IN  /\ stack' = [g \in Greenlets |->
                  IF g \in started THEN b(g).stack ELSE stack[g]]
           /\ pc' = [g \in Greenlets |-> IF g \in started THEN b(g).pc ELSE pc[g]]
           /\ ret' = [g \in Greenlets |-> IF g \in started THEN b(g).ret ELSE ret[g]]
           /\ overlap' = [g \in Greenlets |->
                  IF g \in started THEN FALSE ELSE overlap[g]]
           /\ facts_lock' = [h \in Hosts |->
                  IF h \in ActiveHosts /\ b(Spawned[h]).pc # "idle"
                  THEN [owner |-> Spawned[h], depth |-> Len(b(Spawned[h]).stack)]
                  ELSE facts_lock[h]]
           /\ batch' = [state |-> IF started = {} THEN "returned" ELSE "running",
                        name |-> name,
                        greenlet_to_host |-> greenlet_to_host,
                        pending |-> started,
                        results |-> EmptyDict,
                        progress |-> <<>>,
                        exc |-> ""]
    /\ calls_left' = calls_left - 1
    /\ UNCHANGED <<FACTS, last_defined, facts, stored_args, current_op_global_kwargs, failed_hosts,
                   IGNORE_ERRORS, op_changes_left, shell_calls>>

\* A loop that ends with the first greenlet that finishes
CollectResultFirstOnly(g) ==
    /\ batch.state = "running"
    /\ g \in batch.pending
    /\ pc[g] = "idle"
    /\ batch' = [batch EXCEPT
           !.state = "returned",
           !.pending = {},
           !.results = DictUpdate(@, [k \in {batch.greenlet_to_host[g]} |->
                                         ret[g].data]),
           !.progress = Append(@, batch.greenlet_to_host[g])]
    /\ UNCHANGED <<FACTS, last_defined, facts, stored_args, facts_lock, current_op_global_kwargs,
                   failed_hosts, IGNORE_ERRORS, stack, pc, ret, calls_left,
                   op_changes_left, shell_calls, overlap>>

\* lines 162-167: gevent.iwait hands over a finished greenlet; greenlet.get()
\* returns what get_fact returned or raises what it raised
CollectResult(g) ==
    /\ batch.state = "running"
    /\ g \in batch.pending
    /\ pc[g] = "idle"
    /\ LET host == batch.greenlet_to_host[g]
       IN  IF ret[g].kind = "raise"
           THEN batch' = [batch EXCEPT !.state = "raised",
                                       !.pending = {},
                                       !.exc = ret[g].exc]
           ELSE batch' = [batch EXCEPT
                    !.state = IF batch.pending = {g} THEN "returned" ELSE "running",
                    !.pending = @ \ {g},
                    !.results = DictUpdate(@, [k \in {host} |-> ret[g].data]),
                    !.progress = Append(@, host)]
    /\ UNCHANGED <<FACTS, last_defined, facts, stored_args, facts_lock, current_op_global_kwargs,
                   failed_hosts, IGNORE_ERRORS, stack, pc, ret, calls_left,
                   op_changes_left, shell_calls, overlap>>

---------------------------------------------------------------------------
(* The specifications *)

\* A program in which the classes of registry have been defined and nothing
\* has been resolved yet
InitFrom(registry, call_budget, op_budget) ==
    /\ FACTS = registry
    /\ facts = [h \in Hosts |-> EmptyDict]
    /\ facts_lock = [h \in Hosts |-> Free]
    /\ current_op_global_kwargs = [h \in Hosts |-> EmptyDict]
    /\ failed_hosts = {}
    /\ IGNORE_ERRORS \in BOOLEAN
    /\ stack = [g \in Greenlets |-> <<>>]
    /\ pc = [g \in Greenlets |-> "idle"]
    /\ ret = [g \in Greenlets |-> RetNone]
    /\ batch = NoBatch
    /\ last_defined = NoClass
    /\ calls_left = call_budget
    /\ op_changes_left = op_budget
    /\ stored_args = [h \in Hosts |-> EmptyDict]
    /\ shell_calls = [h \in Hosts |-> EmptyDict]
    /\ overlap = [g \in Greenlets |-> FALSE]

InitWith(call_budget, op_budget) ==
    InitFrom(RegisterAll(EmptyDict, StartupClasses), call_budget, op_budget)

\* Concurrent calls on every host, with a transport that raises, succeeds
\* or fails
Init == InitWith(MaxCalls, 0)

Next ==
    \/ \E g \in Greenlets, host \in Hosts, name \in FactNames,
          args \in ArgsChoices, kwargs \in CoreKwargsChoices :
            get_host_fact(g, host, name, args, kwargs)
    \/ \E g \in Greenlets, host \in Hosts, name \in FactNames,
          args \in ArgsChoices, kwargs \in CoreKwargsChoices :
            get_fact(g, host, name, args, kwargs, TRUE)
    \/ \E host \in Hosts, name \in FactNames, data \in InjectedData,
          args \in ArgsChoices, kwargs \in CoreKwargsChoices :
            create_host_fact(host, name, data, args, kwargs)
    \/ \E host \in Hosts, name \in FactNames,
          args \in ArgsChoices, kwargs \in CoreKwargsChoices :
            delete_host_fact(host, name, args, kwargs)
    \/ \E g \in Greenlets : AcquireLock(g)
    \/ \E g \in Greenlets : TransportReturns(g, CoreShellResults)
    \/ \E g \in Greenlets : Resume(g)
    \/ \E name \in FactNames, args \in ArgsChoices, kwargs \in CoreKwargsChoices :
            get_facts(name, args, kwargs)
    \/ \E g \in Greenlets : CollectResult(g)

Spec == Init /\ [][Next]_vars

\* One greenlet resolves facts on one host, one call after the other, with
\* every execution argument and every answer of the transport
InitResolve == InitWith(MaxResolveCalls, MaxOpChanges)

NextResolve ==
    \/ \E kwargs \in CurrentOpChoices : SetCurrentOp("h1", kwargs)
    \/ \E name \in ResolveFactNames, args \in ArgsChoices,
          kwargs \in KwargsChoices, apply \in BOOLEAN :
            get_fact("g1", "h1", name, args, kwargs, apply)
    \/ TransportReturns("g1", ShellResults)
    \/ Resume("g1")

SpecResolve == InitResolve /\ [][NextResolve]_vars

\* One greenlet reads, injects and evicts the cache entries of one host
\* while the host's current operation arguments change
InitCache == InitWith(MaxCacheCalls, MaxOpChanges)

NextCache ==
    \/ \E kwargs \in CacheCurrentOpChoices : SetCurrentOp("h1", kwargs)
    \/ \E name \in CacheFactNames, args \in ArgsChoices,
          kwargs \in CacheKwargsChoices :
            get_host_fact("g1", "h1", name, args, kwargs)
    \/ \E name \in CacheFactNames, data \in InjectedData, args \in ArgsChoices,
          kwargs \in CacheKwargsChoices :
            create_host_fact("h1", name, data, args, kwargs)
    \/ \E name \in CacheFactNames, args \in ArgsChoices,
          kwargs \in CacheKwargsChoices :
            delete_host_fact("h1", name, args, kwargs)
    \/ TransportReturns("g1", CacheShellResults)
    \/ Resume("g1")

SpecCache == InitCache /\ [][NextCache]_vars

\* Class statements run one after the other, before any fact is resolved
InitRegistry == InitFrom(EmptyDict, 0, 0)

NextRegistry ==
    \E cname \in ClassNames, module \in Modules :
        DefineClass(FactClass(cname, module))

SpecRegistry == InitRegistry /\ [][NextRegistry]_vars

---------------------------------------------------------------------------
(* Properties of the cache and of the transport's failures *)

\* The step in which greenlet g, back from the transport, ends its call
Resumed(g) == pc[g] = "resume" /\ pc'[g] = "idle"

\* The step in which a call of greenlet g hands a command to the transport
Submitted(g) == pc[g] # "exec" /\ pc'[g] = "exec"

\* The lines of one stream of a combined output, in order
LinesOf(combined, stream) ==
    LET idx == {i \in 1..Len(combined) : combined[i].stream = stream}
        pos(k) == CHOOSE i \in idx : Cardinality({j \in idx : j < i}) = k - 1
    IN  [k \in 1..Cardinality(idx) |-> combined[pos(k)].line]

\* C1: on any host, over any sequence of calls with one fingerprint, the
\* command of that fingerprint is run at most once (shell_calls counts the
\* runs since the entry was last injected or evicted): every call after the
\* first completed one is answered from host.facts
C1_CommandRunsOncePerFingerprint ==
    \A host \in Hosts : \A fact_hash \in DOMAIN shell_calls[host] :
        shell_calls[host][fact_hash] <= 1

\* C2: when host.run_shell_command raises, the call of get_fact does not
\* raise: it returns, as a failed execution (status false, no output), the
\* default value of the fact
C2_TransportFailureNotPropagated ==
    [][\A g \in Greenlets :
          (Resumed(g) /\ Top(stack[g]).result.raises) =>
              /\ ret'[g].kind = "return"
              /\ ret'[g].resolved
              /\ ~ret'[g].status
              /\ ~ret'[g].processed
              /\ Len(stack[g]) = 1 =>
                    ret'[g].data = default(get_fact_class(Top(stack[g]).name))
      ]_vars

\* C3: get_facts returns one entry per active host it started with; a host
\* whose transport raised does not abort the batch and its entry is the
\* default value of the fact
C3_FanOutCompleteness ==
    [][/\ \A g \in Greenlets :
             (CollectResult(g) /\ ret[g].terr) =>
                 /\ batch'.state # "raised"
                 /\ batch.greenlet_to_host[g] \in DOMAIN batch'.results
                 /\ ~get_fact_class(batch.name).short =>
                       batch'.results[batch.greenlet_to_host[g]] =
                           default(get_fact_class(batch.name))
       /\ batch'.state = "returned" =>
             DOMAIN batch'.results =
                 {batch'.greenlet_to_host[g] : g \in DOMAIN batch'.greenlet_to_host}
      ]_vars

\* C4: a call that was concurrent with a command in flight for the same
\* host and fingerprint never runs the command itself, and a greenlet only
\* ever waits for a lock that a call on the same host holds
C4_SingleFlightPerHost ==
    /\ \A g \in Greenlets : overlap[g] => ~ret[g].ran
    /\ \A g \in Greenlets :
          pc[g] = "lock" =>
              LET owner == facts_lock[Top(stack[g]).host].owner
              IN  owner # NoGreenlet => stack[owner][1].host = stack[g][1].host

---------------------------------------------------------------------------
(* Properties of the classification of an answer *)

\* C5: fact resolution marks the host failed exactly when the final status
\* is false, ignore_errors is false and apply_failed_hosts is true, where
\* ignore_errors is the value of the host's current operation if it has one
\* and else the config's; a true failure returns the default value of the
\* fact; with ignore_errors true the host is not marked
C5_HostFailedExactlyOnTrueFailure ==
    [][\A g \in Greenlets :
          /\ Submitted(g) =>
                LET frame == Top(stack'[g])
                    current_op == current_op_global_kwargs[frame.host]
                IN  frame.ignore_errors =
                        IF "ignore_errors" \in DOMAIN current_op
                        THEN current_op["ignore_errors"]
                        ELSE IGNORE_ERRORS
          /\ (Resumed(g) /\ ~Top(stack[g]).result.raises) =>
                LET frame == Top(stack[g])
                    marked == /\ ~ret'[g].status
                              /\ ~frame.ignore_errors
                              /\ frame.apply_failed_hosts
                IN  /\ ret'[g].failed <=> marked
                    /\ marked => frame.host \in failed_hosts'
                    /\ ~marked => failed_hosts' = failed_hosts
                    /\ (~ret'[g].status /\ Len(stack[g]) = 1) =>
                          /\ ret'[g].kind = "return"
                          /\ ret'[g].data = default(get_fact_class(frame.name))
      ]_vars

\* a true failure with ignore_errors false and apply_failed_hosts true has
\* marked the host
C5_Witness ==
    /\ ret["g1"].kind = "return"
    /\ ret["g1"].resolved
    /\ ~ret["g1"].status
    /\ ret["g1"].failed
    /\ "h1" \in failed_hosts

\* the stderr lines of the transport's answers that say the escalation user
\* does not exist
SudoUnknownUserLines == {ErrSudo}

SuUnknownUserLines == {ErrSuUser, ErrSuLogin}

\* C6: a failed command whose first stderr line is sudo's unknown-user
\* message while sudo_user is set, or one of su's while su_user is set, ends
\* as a success with the default value of the fact and does not mark the
\* host; every other failed command (the user was not asked for, or only a
\* later stderr line matches) stays a failure
C6_UnknownUserReclassified ==
    [][\A g \in Greenlets :
          (/\ Resumed(g)
           /\ ~Top(stack[g]).result.raises
           /\ ~Top(stack[g]).result.status) =>
              LET frame == Top(stack[g])
                  stderr == LinesOf(frame.result.combined, "stderr")
                  benign ==
                      /\ stderr # <<>>
                      /\ \/ /\ frame.executor_kwargs["sudo_user"] # None
                            /\ stderr[1] \in SudoUnknownUserLines
                         \/ /\ frame.executor_kwargs["su_user"] # None
                            /\ stderr[1] \in SuUnknownUserLines
              IN  IF benign
                  THEN /\ ret'[g].status
                       /\ ~ret'[g].failed
                       /\ failed_hosts' = failed_hosts
                       /\ Len(stack[g]) = 1 =>
                             /\ ret'[g].kind = "return"
                             /\ ret'[g].data = default(get_fact_class(frame.name))
                  ELSE ~ret'[g].status
      ]_vars

\* a failed command has been taken for a success
C6_Witness ==
    /\ ret["g1"].kind = "return"
    /\ ret["g1"].reclassified
    /\ ret["g1"].status
    /\ "h1" \notin failed_hosts

\* C7: a successful command without stdout yields the default value of the
\* fact and fact.process is not called; one with stdout yields
\* fact.process(stdout); fact.process is never called on a failed command
C7_ProcessOnlySuccessfulOutput ==
    [][\A g \in Greenlets :
          (Resumed(g) /\ ~Top(stack[g]).result.raises) =>
              LET frame == Top(stack[g])
                  cls == get_fact_class(frame.name)
                  stdout == LinesOf(frame.result.combined, "stdout")
                  direct == Len(stack[g]) = 1
              IN  /\ (frame.result.status /\ stdout = <<>>) =>
                        /\ ~ret'[g].processed
                        /\ direct => ret'[g].data = default(cls)
                  /\ (frame.result.status /\ stdout # <<>>) =>
                        /\ ret'[g].processed
                        /\ direct => ret'[g].data = process(cls, stdout)
                  /\ ~frame.result.status => ~ret'[g].processed
      ]_vars

\* fact.process has produced the data of a successful command
C7_Witness ==
    /\ ret["g1"].kind = "return"
    /\ ret["g1"].processed
    /\ ret["g1"].data = ListData(<<LineA, LineB, LineC>>)

\* C8: resolving a short fact resolves its primary fact once, with the
\* primary fact's command and none of its own, and returns process_data of
\* the primary fact's data
C8_ShortFactIsProcessDataOfPrimary ==
    [][\A g \in Greenlets :
          /\ (Submitted(g) /\ get_fact_class(stack'[g][1].name).short) =>
                LET short_cls == get_fact_class(stack'[g][1].name)
                IN  /\ Len(stack'[g]) = 2
                    /\ stack'[g][2].name = underscore(short_cls.fact)
                    /\ stack'[g][2].command =
                           get_fact_class(stack'[g][2].name).command
          /\ (/\ Resumed(g)
              /\ Len(stack[g]) = 2
              /\ ~Top(stack[g]).result.raises) =>
                LET frame == Top(stack[g])
                    primary == Classify(get_fact_class(frame.name),
                                        frame.result.status,
                                        frame.result.combined,
                                        frame.executor_kwargs).data
                IN  /\ ret'[g].kind = "return"
                    /\ ret'[g].data =
                           process_data(get_fact_class(stack[g][1].name), primary)
      ]_vars

---------------------------------------------------------------------------
(* Properties of the registry *)

\* C9: a fact name that is registered keeps the class it was registered
\* with
C9_RegistrationNeverChanges ==
    [][\A name \in DOMAIN FACTS :
          name \in DOMAIN FACTS' /\ FACTS'[name] = FACTS[name]]_vars

\* C9, as the code has it: defining a class that is not abstract registers
\* it under its fact name, in place of the class registered there before
C9_LastDefinitionWins ==
    (last_defined # NoClass /\ ~last_defined.cls.abstract) =>
        /\ underscore(last_defined.cls.cname) \in DOMAIN FACTS
        /\ FACTS[underscore(last_defined.cls.cname)] = last_defined.cls

\* a class has taken the place of another class of the same fact name
C9_Witness ==
    /\ last_defined.replaced
    /\ FACTS[underscore(last_defined.cls.cname)] = last_defined.cls

---------------------------------------------------------------------------
(* Properties of the cache management calls *)

\* C10: create_host_fact stores data under the fingerprint get_host_fact
\* looks up, and get_host_fact then returns it without a command;
\* delete_host_fact removes the entry of that fingerprint, and nothing if
\* there is none; get_host_fact without an entry runs the command
C10_CacheManagementSharesFingerprint ==
    [][\A name \in CacheFactNames, args \in ArgsChoices,
          kwargs \in CacheKwargsChoices :
          LET fact_hash == get_host_fact_hash("h1", name, args, kwargs)
              others == DOMAIN facts["h1"] \ {fact_hash}
              kept == \A k \in others :
                          k \in DOMAIN facts'["h1"] /\ facts'["h1"][k] = facts["h1"][k]
          IN  /\ \A data \in InjectedData :
                    create_host_fact("h1", name, data, args, kwargs) =>
                        /\ DOMAIN facts'["h1"] = DOMAIN facts["h1"] \cup {fact_hash}
                        /\ facts'["h1"][fact_hash] = data
                        /\ kept
              /\ delete_host_fact("h1", name, args, kwargs) =>
                    /\ DOMAIN facts'["h1"] = others
                    /\ kept
                    /\ fact_hash \notin DOMAIN facts["h1"] => facts' = facts
              /\ get_host_fact("g1", "h1", name, args, kwargs) =>
                    IF fact_hash \in DOMAIN facts["h1"]
                    THEN /\ pc'["g1"] = "idle"
                         /\ ret'["g1"].kind = "return"
                         /\ ret'["g1"].data = facts["h1"][fact_hash]
                         /\ ~ret'["g1"].ran
                         /\ shell_calls' = shell_calls
                    ELSE /\ pc'["g1"] = "exec"
                         /\ ret'["g1"].ran
      ]_vars

\* get_host_fact has returned injected data without a command
C10_Witness ==
    /\ ret["g1"].kind = "return"
    /\ ret["g1"].data \in InjectedData
    /\ ~ret["g1"].ran
    /\ \E fact_hash \in DOMAIN facts["h1"] :
          facts["h1"][fact_hash] = ret["g1"].data

---------------------------------------------------------------------------
(* Properties of the lock *)

\* C11: on one host no two commands of _get_fact are with the transport at
\* the same time, whatever their fingerprints
C11_OneCommandPerHost ==
    \A g, o \in Greenlets :
        (g # o /\ pc[g] \in {"exec", "resume"} /\ pc[o] \in {"exec", "resume"}) =>
            stack[g][1].host # stack[o][1].host

\* a call waits for the lock of a host while the command of another call is
\* with that host's transport
C11_Witness ==
    \E g, o \in Greenlets :
        /\ pc[g] = "exec"
        /\ pc[o] = "lock"
        /\ stack[g][1].host = stack[o][1].host
        /\ stack[g][1].fact_hash # stack[o][1].fact_hash

---------------------------------------------------------------------------
(* Properties of get_facts *)

\* C12: get_facts starts one greenlet per host that is active when it is
\* called; it returns only when every one of them has ended and been
\* collected; whatever the order in which they end, each host is mapped to
\* the data its own greenlet returned and progress is called once per host
C12_BatchWaitsForAllAndAggregates ==
    [][/\ (batch.state # "running" /\ batch'.state = "running") =>
             /\ {batch'.greenlet_to_host[g] : g \in DOMAIN batch'.greenlet_to_host}
                    = Hosts \ failed_hosts
             /\ Cardinality(DOMAIN batch'.greenlet_to_host)
                    = Cardinality(Hosts \ failed_hosts)
             /\ batch'.pending = DOMAIN batch'.greenlet_to_host
             /\ batch'.results = EmptyDict
             /\ batch'.progress = <<>>
       /\ \A g \in Greenlets :
             (/\ batch.state = "running"
              /\ g \in batch.pending
              /\ g \notin batch'.pending
              /\ batch'.state # "raised") =>
                 LET host == batch.greenlet_to_host[g]
                 IN  /\ pc[g] = "idle"
                     /\ ret[g].kind = "return"
                     /\ batch'.pending = batch.pending \ {g}
                     /\ DOMAIN batch'.results = DOMAIN batch.results \cup {host}
                     /\ batch'.results[host] = ret[g].data
                     /\ \A h \in DOMAIN batch.results :
                           batch'.results[h] = batch.results[h]
                     /\ batch'.progress = Append(batch.progress, host)
       /\ batch'.state = "returned" =>
             LET hosts == {batch'.greenlet_to_host[g] :
                              g \in DOMAIN batch'.greenlet_to_host}
             IN  /\ batch'.pending = {}
                 /\ DOMAIN batch'.results = hosts
                 /\ Len(batch'.progress) = Cardinality(hosts)
                 /\ {batch'.progress[i] : i \in 1..Len(batch'.progress)} = hosts
      ]_vars

\* get_facts has returned the data of two hosts whose greenlets ended in the
\* opposite of the order in which they were started
C12_Witness ==
    /\ batch.state = "returned"
    /\ batch.progress = <<"h2", "h1">>
    /\ DOMAIN batch.results = {"h1", "h2"}
    /\ batch.greenlet_to_host["g1"] = "h1"

---------------------------------------------------------------------------
(* Properties of the cache under concurrent calls *)

\* C13: host.facts is only written by a call that holds the host's
\* facts_lock, so the entry a resolution stores was absent since that
\* resolution looked it up: no injection or eviction happens in between
C13_CacheGuardedByLock ==
    [][/\ \A host \in Hosts :
             facts'[host] # facts[host] =>
                 \E g \in Greenlets :
                     /\ facts_lock[host].owner = g
                     /\ Resumed(g)
       /\ \A g \in Greenlets :
             (/\ Resumed(g)
              /\ ~Top(stack[g]).result.raises
              /\ stack[g][1].fact_hash # NoHash) =>
                 stack[g][1].fact_hash \notin DOMAIN facts[stack[g][1].host]
      ]_vars

---------------------------------------------------------------------------
(* Calls with a caller's error *)

\* a name that no class registers
CallerFactNames == {"files", "nosuch"}

\* ignore_errors is a global argument that is no executor argument
CallerKwargsChoices ==
    {EmptyDict, [sudo_user |-> "alice"], [ignore_errors |-> TRUE]}

\* Two greenlets resolve facts on one host; some calls name a fact that is
\* not registered or pass an override that facts do not support
InitCaller == InitWith(MaxCalls, 0)

NextCaller ==
    \/ \E g \in Greenlets, name \in CallerFactNames, args \in ArgsChoices,
          kwargs \in CallerKwargsChoices :
            get_host_fact(g, "h1", name, args, kwargs)
    \/ \E g \in Greenlets, name \in CallerFactNames, args \in ArgsChoices,
          kwargs \in CallerKwargsChoices :
            get_fact(g, "h1", name, args, kwargs, TRUE)
    \/ \E g \in Greenlets : AcquireLock(g)
    \/ \E g \in Greenlets : TransportReturns(g, CoreShellResults)
    \/ \E g \in Greenlets : Resume(g)

SpecCaller == InitCaller /\ [][NextCaller]_vars

\* C14: a call for a name that is not registered raises KeyError and a call
\* with an override key that is no executor key raises PyinfraError, as soon
\* as the call has the lock; such a call runs no command, writes nothing to
\* host.facts, does not mark the host failed and leaves the lock released
C14_CallerErrorLeavesStateUnchanged ==
    [][\A g \in Greenlets :
          /\ (/\ \/ AcquireLock(g)
                 \/ \E name \in CallerFactNames, args \in ArgsChoices,
                       kwargs \in CallerKwargsChoices :
                         \/ get_fact(g, "h1", name, args, kwargs, TRUE)
                         \/ get_host_fact(g, "h1", name, args, kwargs)
              /\ pc'[g] = "idle"
              /\ ret'[g].kind = "raise"
              /\ ret'[g].exc \in {"KeyError", "PyinfraError"}) =>
                 /\ ~ret'[g].ran
                 /\ facts' = facts
                 /\ failed_hosts' = failed_hosts
                 /\ shell_calls' = shell_calls
                 /\ stack'[g] = <<>>
                 /\ \A host \in Hosts : facts_lock'[host].owner # g
          /\ \A name \in CallerFactNames, args \in ArgsChoices,
                kwargs \in CallerKwargsChoices :
                (/\ \/ get_fact(g, "h1", name, args, kwargs, TRUE)
                    \/ get_host_fact(g, "h1", name, args, kwargs)
                 /\ facts_lock["h1"].owner = NoGreenlet
                 /\ facts["h1"] = EmptyDict
                 /\ name = "nosuch" \/ "ignore_errors" \in DOMAIN kwargs) =>
                    /\ pc'[g] = "idle"
                    /\ ret'[g].kind = "raise"
                    /\ ret'[g].exc = IF name = "nosuch"
                                     THEN "KeyError" ELSE "PyinfraError"
      ]_vars

\* a call with an unsupported override has raised while the other greenlet
\* was idle, and the lock is free
C14_Witness ==
    /\ ret["g2"].kind = "raise"
    /\ ret["g2"].exc = "PyinfraError"
    /\ ~ret["g2"].ran
    /\ pc = [g \in Greenlets |-> "idle"]
    /\ facts_lock["h1"] = Free

---------------------------------------------------------------------------
(* The execution arguments handed to the transport *)

\* what the host's current operation may hold: executor arguments and
\* arguments that are none (ignore_errors, serial)
ArgumentCurrentOpChoices ==
    {EmptyDict,
     [sudo_user |-> "root"],
     [sudo_user |-> "root", timeout |-> "10", serial |-> "yes"],
     [su_user |-> "daemon", ignore_errors |-> TRUE]}

\* what a call may pass
ArgumentKwargsChoices ==
    {EmptyDict,
     [sudo_user |-> "alice"],
     [timeout |-> "5"],
     [sudo_user |-> "alice", su_user |-> "bob"]}

\* One greenlet resolves a fact with arguments of its own while the host's
\* current operation has others
InitArguments == InitWith(MaxResolveCalls, MaxOpChanges)

NextArguments ==
    \/ \E kwargs \in ArgumentCurrentOpChoices : SetCurrentOp("h1", kwargs)
    \/ \E args \in ArgsChoices, kwargs \in ArgumentKwargsChoices :
            get_fact("g1", "h1", "files", args, kwargs, TRUE)
    \/ TransportReturns("g1", CoreShellResults)
    \/ Resume("g1")

SpecArguments == InitArguments /\ [][NextArguments]_vars

\* C15: the arguments handed to the transport hold, for an executor key the
\* call passed, the passed value; for an executor key only the host's
\* current operation has, that value; and no key that is no executor key
C15_OverrideBeatsCurrentOp ==
    [][\A g \in Greenlets :
          Submitted(g) =>
              LET frame == Top(stack'[g])
                  passed == frame.kwargs
                  current_op == current_op_global_kwargs[frame.host]
                  executor_kwargs == frame.executor_kwargs
              IN  /\ DOMAIN executor_kwargs \subseteq {"sudo_user", "su_user", "timeout"}
                  /\ \A key \in {"sudo_user", "su_user", "timeout"} :
                        /\ key \in DOMAIN passed =>
                              /\ key \in DOMAIN executor_kwargs
                              /\ executor_kwargs[key] = passed[key]
                        /\ (key \notin DOMAIN passed /\ key \in DOMAIN current_op) =>
                              /\ key \in DOMAIN executor_kwargs
                              /\ executor_kwargs[key] = current_op[key]
      ]_vars

\* a command is with the transport under the sudo_user the call passed and
\* the timeout of the current operation, whose sudo_user is another
C15_Witness ==
    /\ pc["g1"] = "exec"
    /\ current_op_global_kwargs["h1"] =
           [sudo_user |-> "root", timeout |-> "10", serial |-> "yes"]
    /\ Top(stack["g1"]).executor_kwargs =
           [sudo_user |-> "alice", su_user |-> None, timeout |-> "10"]

---------------------------------------------------------------------------
(* Facts that declare requires_command *)

\* the commands that may be installed on the host
InstalledChoices == SUBSET {"dpkg"}

RequiresFactNames == {"files", "deb_packages"}

\* how the fact's own command may end when the shell runs it
FactCommandResults == ShellResults \ {TransportRaise}

\* One greenlet resolves a fact that declares requires_command, and one that
\* does not, on a host where the required command is or is not installed
InitRequires ==
    InitFrom(RegisterAll(EmptyDict,
                         Append(StartupClasses, FactClass("DebPackages", "m1"))),
             MaxResolveCalls, 0)

NextRequires ==
    \/ \E name \in RequiresFactNames, args \in ArgsChoices,
          kwargs \in KwargsChoices, apply \in BOOLEAN :
            get_fact("g1", "h1", name, args, kwargs, apply)
    \/ \E installed \in InstalledChoices, fact_result \in FactCommandResults :
            RemoteShellReturns("g1", installed, fact_result)
    \/ Resume("g1")

SpecRequires == InitRequires /\ [][NextRequires]_vars

\* C16: the command of a fact that declares requires_command ends as the
\* fact's own command does when the required command is installed, and as a
\* success without output when it is not; in that case the resolution
\* returns the default value of the fact and does not mark the host
C16_RequiresCommandGuardsFact ==
    [][/\ \A installed \in InstalledChoices, fact_result \in FactCommandResults :
             (/\ RemoteShellReturns("g1", installed, fact_result)
              /\ get_fact_class(Top(stack["g1"]).name).requires_command # None) =>
                 LET required ==
                         get_fact_class(Top(stack["g1"]).name).requires_command
                 IN  Top(stack'["g1"]).result =
                         IF required \in installed
                         THEN fact_result
                         ELSE [raises |-> FALSE, status |-> TRUE, combined |-> <<>>]
       /\ (/\ Resumed("g1")
           /\ get_fact_class(Top(stack["g1"]).name).requires_command # None
           /\ Top(stack["g1"]).result =
                  [raises |-> FALSE, status |-> TRUE, combined |-> <<>>]) =>
              /\ ret'["g1"].kind = "return"
              /\ ret'["g1"].status
              /\ ~ret'["g1"].processed
              /\ ret'["g1"].data = default(get_fact_class(Top(stack["g1"]).name))
              /\ failed_hosts' = failed_hosts
      ]_vars

\* a fact that declares requires_command has been resolved to its default
\* value by a command that ran nothing
C16_Witness ==
    /\ "deb_packages" \in DOMAIN FACTS
    /\ ret["g1"].kind = "return"
    /\ ret["g1"].ran
    /\ ret["g1"].status
    /\ ~ret["g1"].processed
    /\ ~ret["g1"].reclassified
    /\ ret["g1"].data = NoneData
    /\ failed_hosts = {}

---------------------------------------------------------------------------
(* Calls without a fingerprint *)

\* C17: a call of get_fact without fact_hash runs the command whatever
\* host.facts holds, and leaves host.facts as it was; so does every greenlet
\* of get_facts
C17_NoFingerprintNoCache ==
    [][/\ \A g \in Greenlets :
             /\ (Resumed(g) /\ stack[g][1].fact_hash = NoHash) => facts' = facts
             /\ (/\ \/ AcquireLock(g)
                    \/ \E host \in Hosts, name \in FactNames, args \in ArgsChoices,
                          kwargs \in CoreKwargsChoices :
                            /\ get_fact(g, host, name, args, kwargs, TRUE)
                            /\ facts_lock[host].owner = NoGreenlet
                 /\ stack'[g] # <<>>
                 /\ stack'[g][1].fact_hash = NoHash) =>
                    /\ pc'[g] = "exec"
                    /\ ret'[g].ran
                    /\ facts' = facts
       /\ \A name \in FactNames, args \in ArgsChoices, kwargs \in CoreKwargsChoices :
             get_facts(name, args, kwargs) =>
                 /\ facts' = facts
                 /\ {batch'.greenlet_to_host[g] : g \in DOMAIN batch'.greenlet_to_host}
                        = Hosts \ failed_hosts
                 /\ \A g \in DOMAIN batch'.greenlet_to_host :
                       /\ pc'[g] = "exec"
                       /\ ret'[g].ran
                       /\ stack'[g][1].fact_hash = NoHash
      ]_vars

\* the command of a fact is with the transport for a call without
\* fingerprint while host.facts holds an entry for that fact
C17_Witness ==
    \E g \in Greenlets :
        /\ pc[g] = "exec"
        /\ stack[g][1].fact_hash = NoHash
        /\ stack[g][1].name = "files"
        /\ get_host_fact_hash(stack[g][1].host, "files", <<>>, EmptyDict)
               \in DOMAIN facts[stack[g][1].host]

---------------------------------------------------------------------------
(* Facts with positional arguments *)

\* the positional arguments of a call, e.g. the path of a file fact
PositionalArgsChoices == {<<>>, <<"/a">>, <<"/b">>}

\* One greenlet reads, injects and evicts facts of one host with different
\* positional arguments
InitPositional == InitWith(MaxCacheCalls, 0)

NextPositional ==
    \/ \E args \in PositionalArgsChoices :
            get_host_fact("g1", "h1", "files", args, EmptyDict)
    \/ \E data \in InjectedData, args \in PositionalArgsChoices :
            create_host_fact("h1", "files", data, args, EmptyDict)
    \/ \E args \in PositionalArgsChoices :
            delete_host_fact("h1", "files", args, EmptyDict)
    \/ TransportReturns("g1", CacheShellResults)
    \/ Resume("g1")

SpecPositional == InitPositional /\ [][NextPositional]_vars

\* C18: what get_host_fact returns from host.facts was stored by a
\* resolution or an injection with the same name, args and kwargs: a call
\* that differs from it in its args runs its own command
C18_CacheEntryHasSameArgs ==
    [][\A args \in PositionalArgsChoices :
          (/\ get_host_fact("g1", "h1", "files", args, EmptyDict)
           /\ ret'["g1"].kind = "return"
           /\ ~ret'["g1"].ran) =>
              LET fact_hash == get_host_fact_hash("h1", "files", args, EmptyDict)
              IN  /\ fact_hash \in DOMAIN stored_args["h1"]
                  /\ stored_args["h1"][fact_hash] = args
      ]_vars

---------------------------------------------------------------------------
(* Failures in the cache *)

\* the host's current operation sets ignore_errors, or not
FailureCurrentOpChoices ==
    {EmptyDict, [ignore_errors |-> TRUE], [ignore_errors |-> FALSE]}

FailureFactNames == {"files", "users"}

\* One greenlet resolves facts of one host with a fingerprint, again and
\* again, while ignore_errors of the host's current operation changes and
\* the command succeeds at one time and fails at another
InitFailure == InitWith(MaxCacheCalls, MaxOpChanges)

NextFailure ==
    \/ \E kwargs \in FailureCurrentOpChoices : SetCurrentOp("h1", kwargs)
    \/ \E name \in FailureFactNames, args \in ArgsChoices :
            get_host_fact("g1", "h1", name, args, EmptyDict)
    \/ TransportReturns("g1", CacheShellResults)
    \/ Resume("g1")

SpecFailure == InitFailure /\ [][NextFailure]_vars

\* C19: a resolution with a fingerprint that ends as a failure stores the
\* default value of the fact under the fingerprint; the entry stays, and a
\* later call with the fingerprint returns it without a command and without
\* marking the host, whatever ignore_errors is by then
C19_FailureIsCached ==
    [][/\ (/\ Resumed("g1")
           /\ ~Top(stack["g1"]).result.raises
           /\ ~ret'["g1"].status) =>
              LET frame == Top(stack["g1"])
              IN  /\ frame.fact_hash \in DOMAIN facts'["h1"]
                  /\ facts'["h1"][frame.fact_hash] =
                         default(get_fact_class(frame.name))
       /\ \A fact_hash \in DOMAIN facts["h1"] :
             /\ fact_hash \in DOMAIN facts'["h1"]
             /\ facts'["h1"][fact_hash] = facts["h1"][fact_hash]
       /\ \A name \in FailureFactNames, args \in ArgsChoices :
             LET fact_hash == get_host_fact_hash("h1", name, args, EmptyDict)
             IN  (/\ get_host_fact("g1", "h1", name, args, EmptyDict)
                  /\ fact_hash \in DOMAIN facts["h1"]) =>
                     /\ pc'["g1"] = "idle"
                     /\ ret'["g1"].kind = "return"
                     /\ ret'["g1"].data = facts["h1"][fact_hash]
                     /\ ~ret'["g1"].ran
                     /\ ~ret'["g1"].failed
                     /\ failed_hosts' = failed_hosts
                     /\ shell_calls' = shell_calls
      ]_vars

\* a failure was resolved while ignore_errors was true; ignore_errors is
\* false now and a later call has returned the stored default value, without
\* a command and without marking the host
C19_Witness ==
    /\ IGNORE_ERRORS
    /\ current_op_global_kwargs["h1"] = [ignore_errors |-> FALSE]
    /\ failed_hosts = {}
    /\ pc["g1"] = "idle"
    /\ ret["g1"].kind = "return"
    /\ ~ret["g1"].ran
    /\ ret["g1"].data = ListData(<<>>)
    /\ facts["h1"] = [k \in {get_host_fact_hash("h1", "files", <<>>, EmptyDict)}
                         |-> ListData(<<>>)]

---------------------------------------------------------------------------
(* Progress of the calls *)

\* Two greenlets resolve a fact and a short fact on one host.  The transport
\* answers every command, a greenlet that can go on does, and a greenlet
\* that waits for the lock gets it once it is free often enough
InitLive == InitWith(MaxCalls, 0)

NextLive ==
    \/ \E g \in Greenlets, name \in FactNames, args \in ArgsChoices,
          kwargs \in CoreKwargsChoices :
            get_host_fact(g, "h1", name, args, kwargs)
    \/ \E g \in Greenlets, name \in FactNames, args \in ArgsChoices,
          kwargs \in CoreKwargsChoices :
            get_fact(g, "h1", name, args, kwargs, TRUE)
    \/ \E g \in Greenlets : AcquireLock(g)
    \/ \E g \in Greenlets : TransportReturns(g, CoreShellResults)
    \/ \E g \in Greenlets : Resume(g)

SpecLive ==
    /\ InitLive
    /\ [][NextLive]_vars
    /\ \A g \in Greenlets :
          /\ SF_vars(AcquireLock(g))
          /\ WF_vars(TransportReturns(g, CoreShellResults))
          /\ WF_vars(Resume(g))

\* C20: a greenlet whose call has ended holds no lock, and every call ends:
\* the one that returns from the cache, the one that resolves, the one that
\* raises, the one that waits for the lock, and the short fact whose nested
\* get_fact takes the lock its own greenlet holds
C20_LockReleasedAndCallsEnd ==
    /\ [](\A g \in Greenlets :
             pc[g] = "idle" => \A host \in Hosts : facts_lock[host].owner # g)
    /\ \A g \in Greenlets :
          (pc[g] # "idle") ~>
              (pc[g] = "idle" /\ \A host \in Hosts : facts_lock[host].owner # g)

\* the nested get_fact of a short fact holds the lock a second time while
\* the other greenlet waits for it
C20_Witness ==
    /\ pc["g1"] = "exec"
    /\ Len(stack["g1"]) = 2
    /\ facts_lock["h1"] = [owner |-> "g1", depth |-> 2]
    /\ pc["g2"] = "lock"

===========================================================================
